---- MODULE Spec2Model ----
(***************************************************************************)
(* Model of backend/app.py: the create_from_openscad request handler and   *)
(* the onshape_api_request helper it drives.                               *)
(*                                                                         *)
(* Each request runs the handler once.  Requests share the clock, the      *)
(* temporary directory and the remote document service, and interleave at  *)
(* the handler's external operations (file creation, the compiler, file    *)
(* reads and removals, the three HTTP exchanges).                          *)
(***************************************************************************)
EXTENDS Integers, Sequences, FiniteSets, TLC

(* ------------------------------ bounds --------------------------------- *)

\* longest openscad_code, in characters
MaxCodeLen == 1
\* clock range: seconds 0..MaxSec, microseconds 0..MaxMicro
MaxSec == 1
MaxMicro == 1

\* the requests that may be issued
Reqs == {1, 2}

(* ------------------------------ values --------------------------------- *)

\* Python's None, for the Optional[str] fields and unset locals
None == "<None>"

\* characters of openscad_code: a whitespace character and a non-blank one
Chars == {" ", "c"}

RECURSIVE SeqsUpTo(_, _)
SeqsUpTo(S, n) ==
    IF n = 0 THEN {<<>>}
    ELSE LET shorter == SeqsUpTo(S, n - 1)
         IN  shorter \cup {Append(s, c) : s \in {t \in shorter : Len(t) = n - 1}, c \in S}

\* payload.openscad_code: str (required)
Codes == SeqsUpTo(Chars, MaxCodeLen)

\* payload.document_name: Optional[str] = None
NoName == <<None>>
Names == {NoName, <<>>, <<"G">>}

\* a str is falsy exactly when it is empty; None is falsy
Falsy(s) == s = <<>> \/ s = NoName

\* str.strip() leaves nothing: the text is empty or all whitespace
IsBlank(s) == \A i \in 1..Len(s) : s[i] = " "

\* datetime.utcnow(): a reading of the wall clock
Times == [sec : 0..MaxSec, us : 0..MaxMicro]

Digits == <<"0", "1", "2", "3", "4", "5", "6", "7", "8", "9">>
ToStr(n) == Digits[n + 1]

\* variant: isoformat(timespec="seconds"), the microseconds dropped
isoformat_seconds(t) == <<ToStr(t.sec)>>

\* datetime.isoformat(): the fractional part is printed only when the
\* microsecond field is non-zero
isoformat(t) ==
    IF t.us = 0 THEN <<ToStr(t.sec)>> ELSE <<ToStr(t.sec), ".", ToStr(t.us)>>

\* line 68: payload.document_name or f"AI Model {utcnow().isoformat()}"
DefaultDocName(t) == <<"AI Model ">> \o isoformat(t)
DocName(document_name, t) ==
    IF Falsy(document_name) THEN DefaultDocName(t) ELSE document_name

(* --------------------------- temporary files --------------------------- *)

\* names tempfile.NamedTemporaryFile can hand out: two per request
Paths == 1..(2 * Cardinality(Reqs))
NoPath == 0

\* file contents; Absent marks a name with no file behind it
Absent == <<"absent">>
EmptyFile == <<>>
ScadText(code) == <<"scad">> \o code
\* what openscad writes to the output path for a source it accepts
Mesh(code) == <<"stl">> \o code

\* variant: the two files are written under names every request shares,
\* the second name used once the first is taken
FreshPath_shared(fs) == IF fs[1] = Absent THEN 1 ELSE 2

\* NamedTemporaryFile(delete=False) opens a name that does not exist yet
FreshPath(fs) == CHOOSE p \in Paths : fs[p] = Absent /\ \A q \in Paths : fs[q] = Absent => p <= q

(* ---------------------------- remote service --------------------------- *)

ONSHAPE_API_URL == "https://cad.onshape.com/api/v12"

\* identifiers the service may issue for a new document; opaque strings
DocIds == {"", "d1", "d2"}
\* the default workspace the service creates with a document
WorkspaceOf(d) == CASE d = "" -> "w0" [] d = "d1" -> "w1" [] OTHER -> "w2"
\* the blob element the service creates for an upload into document d
BlobOf(d) == CASE d = "" -> "b0" [] d = "d1" -> "b1" [] OTHER -> "b2"

\* a decoded JSON object: a set of <<key, value>> pairs, nested keys joined
\* with "/" (doc["defaultWorkspace"]["id"] is the key "defaultWorkspace/id")
EmptyDict == {}
HasKey(dict, k) == \E kv \in dict : kv[1] = k
Get(dict, k) == (CHOOSE kv \in dict : kv[1] = k)[2]

\* an HTTP response: status code, body text, and the object the text
\* decodes to when it is JSON
JsonText == "{json}"
Response(status, text, obj) == [status_code |-> status, text |-> text, parsed |-> obj]
ErrStatuses == {403, 500}
StatusStr(status) ==
    CASE status = 400 -> "400" [] status = 403 -> "403" [] status = 500 -> "500"
      [] status = 304 -> "304" [] OTHER -> "200"
ErrResponses == {Response(st, tx, EmptyDict) : st \in ErrStatuses, tx \in {"", "denied"}}
\* an answer outside 2xx that requests does not follow and resp.ok accepts
Unfollowed == {Response(304, "", EmptyDict)}
\* successful responses that carry no usable object
BlankOk == {Response(200, tx, EmptyDict) : tx \in {"", " "}}
GarbageOk == {Response(200, "<html>", EmptyDict)}
JsonOk(obj) == Response(200, JsonText, obj)

\* requests.Response.ok
Ok(resp) == resp.status_code < 400
\* resp.text.strip()
StripsToEmpty(text) == text \in {"", " "}

(* ------------------------------ exceptions ----------------------------- *)

Exc(type, status, detail) == [type |-> type, status_code |-> status, detail |-> detail]
NoExc == Exc("none", 0, <<>>)
HTTPException(status, detail) == Exc("HTTPException", status, detail)
KeyError(k) == Exc("KeyError", 0, <<k>>)
OtherError(type) == Exc(type, 0, <<type>>)
\* str(e), line 174
Str(e) ==
    IF e.type = "HTTPException" THEN <<StatusStr(e.status_code), ": ">> \o e.detail ELSE e.detail

\* what a call gives back: a value, or a raised exception
Returned(v) == [raised |-> FALSE, value |-> v, exc |-> NoExc]
Raised(e) == [raised |-> TRUE, value |-> EmptyDict, exc |-> e]

\* variant: the body is decoded whatever it holds, without the strip() test
onshape_api_request_noempty(resp) ==
    IF ~Ok(resp)
    THEN Raised(HTTPException(resp.status_code,
                 <<"Onshape API error ", StatusStr(resp.status_code), ": ", resp.text>>))
    ELSE IF resp.text = JsonText
         THEN Returned(resp.parsed)
         ELSE Raised(OtherError("JSONDecodeError"))

\* onshape_api_request, lines 51-59, applied to the response of the exchange
onshape_api_request(resp) ==
    IF ~Ok(resp)
    THEN Raised(HTTPException(resp.status_code,
                 <<"Onshape API error ", StatusStr(resp.status_code), ": ", resp.text>>))
    ELSE IF ~StripsToEmpty(resp.text)
         THEN IF resp.text = JsonText
              THEN Returned(resp.parsed)
              ELSE Raised(OtherError("JSONDecodeError"))
         ELSE Returned(EmptyDict)

(* ------------------------------- outcomes ------------------------------ *)

\* variant: the address built from the API base instead
ViewerUrl_api(id) == <<ONSHAPE_API_URL, "/documents/", id>>

\* the viewer address, lines 142 and 159
ViewerUrl(id) == <<"https://cad.onshape.com", "/documents/", id>>

\* CreateFromOpenSCADResponse, lines 33-39; unset Optional fields are None
NoText == <<None>>
\* the success message opens with a check-mark emoji (U+2705), written
\* here as [U+2705]; the message of the except branch has none
SuccessMessage(name, id) == [head |-> "[U+2705] Successfully created 3D model in Onshape!",
                             docName |-> name, docId |-> id, url |-> ViewerUrl(id)]
PartialMessage(name, id) == [head |-> "Successfully created 3D model in Onshape!",
                             docName |-> name, docId |-> id, url |-> ViewerUrl(id)]
NoMessage == [head |-> None, docName |-> NoText, docId |-> None, url |-> NoText]
CreateFromOpenSCADResponse(success, id, name, url, message, error) ==
    [success |-> success, docId |-> id, docName |-> name, url |-> url,
     message |-> message, error |-> error]
NoResponse == CreateFromOpenSCADResponse(FALSE, None, NoText, NoText, NoMessage, NoText)

\* truth value of doc_id at line 158: None and the empty string are false
Truthy(id) == id # None /\ id # ""

\* variant: the except branch leaves the url out of its record
PartialResponse_nourl(id, name) ==
    CreateFromOpenSCADResponse(TRUE, id, name, NoText, PartialMessage(name, id), NoText)

\* the except branch, lines 156-175
PartialResponse(id, name) ==
    CreateFromOpenSCADResponse(TRUE, id, name, ViewerUrl(id), PartialMessage(name, id), NoText)
\* variant: the failure record built without error=str(e)
FailureResponse_noerror(e) ==
    CreateFromOpenSCADResponse(FALSE, None, NoText, NoText, NoMessage, NoText)

FailureResponse(e) ==
    CreateFromOpenSCADResponse(FALSE, None, NoText, NoText, NoMessage, Str(e))
ExceptResponse(id, name, e) ==
    IF Truthy(id) THEN PartialResponse(id, name) ELSE FailureResponse(e)
ExceptVia(id) == IF Truthy(id) THEN "PartialSuccess" ELSE "Failure"

\* the return at the end of the try block, lines 142-154
SuccessResponse(id, name) ==
    CreateFromOpenSCADResponse(TRUE, id, name, ViewerUrl(id), SuccessMessage(name, id), NoText)

(* -------------------------------- state -------------------------------- *)

VARIABLES
    now,           \* the wall clock
    files,         \* the temporary directory: path -> contents
    remoteDocs,    \* documents that exist on the remote service
    pc,            \* where each request's handler stands
    payload,       \* the request body
    issuedAt,      \* the clock reading taken at line 68
    doc_name, doc_id, workspace_id, scad_path, stl_path, stl_bytes, blob,
                   \* the handler's locals
    response,      \* the record the handler returned
    fault,         \* the exception that left the handler, if one did
    via,           \* how the handler ended
    created,       \* the document the service created for the request
    calls          \* the external operations the handler invoked, in order

locals == <<doc_name, doc_id, workspace_id, scad_path, stl_path, stl_bytes, blob>>
ending == <<response, fault, via>>
vars == <<now, files, remoteDocs, pc, payload, issuedAt, locals, ending, created, calls>>

\* placeholders of a log entry that records no HTTP exchange
NoResp == Response(0, "", EmptyDict)
NoOut == Returned(EmptyDict)

\* an entry of the call log: the operation, its arguments, and whether it
\* came back with a result ("ok") or raised ("failed"); for an HTTP exchange
\* that was answered, also the response and what onshape_api_request made
\* of it
Call(op, doc, ws, arg, data, result) ==
    [op |-> op, doc |-> doc, ws |-> ws, arg |-> arg, data |-> data, result |-> result,
     resp |-> NoResp, out |-> NoOut]
Exchange(call, resp, out) == [call EXCEPT !.resp = resp, !.out = out]

NoPayload == [openscad_code |-> <<>>, document_name |-> NoName]

Init ==
    /\ now = [sec |-> 0, us |-> 0]
    /\ files = [p \in Paths |-> Absent]
    /\ remoteDocs = {}
    /\ pc = [r \in Reqs |-> "Idle"]
    /\ payload = [r \in Reqs |-> NoPayload]
    /\ issuedAt = [r \in Reqs |-> [sec |-> 0, us |-> 0]]
    /\ doc_name = [r \in Reqs |-> NoText]
    /\ doc_id = [r \in Reqs |-> None]
    /\ workspace_id = [r \in Reqs |-> None]
    /\ scad_path = [r \in Reqs |-> NoPath]
    /\ stl_path = [r \in Reqs |-> NoPath]
    /\ stl_bytes = [r \in Reqs |-> EmptyFile]
    /\ blob = [r \in Reqs |-> EmptyDict]
    /\ response = [r \in Reqs |-> NoResponse]
    /\ fault = [r \in Reqs |-> NoExc]
    /\ via = [r \in Reqs |-> "running"]
    /\ created = [r \in Reqs |-> None]
    /\ calls = [r \in Reqs |-> <<>>]

\* the stage of the pipeline a handler position belongs to
Stage(p) ==
    CASE p \in {"TempFiles", "Compiler", "ReadMesh", "Cleanup"} -> "Compiling"
      [] OTHER -> p

Logged(r, call) == calls' = [calls EXCEPT ![r] = Append(@, call)]
ResultOf(res) == IF res.raised THEN "failed" ELSE "ok"

\* the handler returns a record
Return(r, resp, how) ==
    /\ pc' = [pc EXCEPT ![r] = "Done"]
    /\ response' = [response EXCEPT ![r] = resp]
    /\ via' = [via EXCEPT ![r] = how]
    /\ UNCHANGED fault

\* an exception raised inside the try block reaches line 156; id is the
\* value doc_id holds at that moment
Except(r, id, e) == Return(r, ExceptResponse(id, doc_name[r], e), ExceptVia(id))

\* the clock advances
Tick ==
    /\ \/ /\ now.us < MaxMicro
          /\ now' = [now EXCEPT !.us = now.us + 1]
       \/ /\ now.sec < MaxSec
          /\ now' = [sec |-> now.sec + 1, us |-> 0]
    /\ UNCHANGED <<files, remoteDocs, pc, payload, issuedAt, locals, ending, created, calls>>

\* lines 66-68: the handler is entered, reads the payload and fixes doc_name
Start(r) ==
    /\ pc[r] = "Idle"
    /\ \E code \in Codes, name \in Names :
          /\ payload' = [payload EXCEPT ![r] = [openscad_code |-> code, document_name |-> name]]
          /\ doc_name' = [doc_name EXCEPT ![r] = DocName(name, now)]
    /\ issuedAt' = [issuedAt EXCEPT ![r] = now]
    /\ pc' = [pc EXCEPT ![r] = "Validating"]
    /\ UNCHANGED <<now, files, remoteDocs, doc_id, workspace_id, scad_path, stl_path,
                   stl_bytes, blob, ending, created, calls>>

\* variant: the emptiness check placed after the source file is written
Validate_late(r) ==
    /\ pc[r] = "Validating"
    /\ IF Len(payload[r].openscad_code) = 0
       THEN /\ pc' = [pc EXCEPT ![r] = "Done"]
            /\ fault' = [fault EXCEPT ![r] = HTTPException(400, <<"openscad_code is required">>)]
            /\ via' = [via EXCEPT ![r] = "raised"]
            /\ files' = [files EXCEPT ![FreshPath(files)] = ScadText(payload[r].openscad_code)]
            /\ scad_path' = [scad_path EXCEPT ![r] = FreshPath(files)]
            /\ UNCHANGED response
       ELSE /\ pc' = [pc EXCEPT ![r] = "TempFiles"]
            /\ UNCHANGED <<ending, files, scad_path>>
    /\ UNCHANGED <<now, remoteDocs, payload, issuedAt, doc_name, doc_id, workspace_id,
                   stl_path, stl_bytes, blob, created, calls>>

\* lines 70-73: the emptiness check, outside the try block, so its
\* HTTPException leaves the handler
Validate(r) ==
    /\ pc[r] = "Validating"
    /\ IF Len(payload[r].openscad_code) = 0
       THEN /\ pc' = [pc EXCEPT ![r] = "Done"]
            /\ fault' = [fault EXCEPT ![r] = HTTPException(400, <<"openscad_code is required">>)]
            /\ via' = [via EXCEPT ![r] = "raised"]
            /\ UNCHANGED response
       ELSE /\ pc' = [pc EXCEPT ![r] = "TempFiles"]
            /\ UNCHANGED ending
    /\ UNCHANGED <<now, files, remoteDocs, payload, issuedAt, locals, created, calls>>

\* the frame shared by every step after validation that ends the handler
\* or moves it on without touching the clock or the payload
Fixed == UNCHANGED <<now, payload, issuedAt, doc_name>>

\* lines 77-82: the source is written to a new .scad file, then an empty
\* .stl file is created; either creation can fail with OSError
CreateTempFiles(r) ==
    /\ pc[r] = "TempFiles"
    /\ LET p1 == FreshPath(files)
           withScad == [files EXCEPT ![p1] = ScadText(payload[r].openscad_code)]
           p2 == FreshPath(withScad)
       IN  \/ /\ files' = [withScad EXCEPT ![p2] = EmptyFile]
              /\ scad_path' = [scad_path EXCEPT ![r] = p1]
              /\ stl_path' = [stl_path EXCEPT ![r] = p2]
              /\ pc' = [pc EXCEPT ![r] = "Compiler"]
              /\ UNCHANGED ending
           \/ /\ UNCHANGED <<files, scad_path, stl_path>>
              /\ Except(r, doc_id[r], OtherError("OSError"))
           \/ /\ files' = withScad
              /\ scad_path' = [scad_path EXCEPT ![r] = p1]
              /\ UNCHANGED stl_path
              /\ Except(r, doc_id[r], OtherError("OSError"))
    /\ Fixed
    /\ UNCHANGED <<remoteDocs, doc_id, workspace_id, stl_bytes, blob, created, calls>>

\* the source openscad finds at the path it is given
SourceAt(path) == Tail(files[path])

CompileCall(r, result) ==
    Call("compile", None, None, <<scad_path[r], stl_path[r]>>, files[scad_path[r]], result)

\* variant: check=True left out, so a non-zero exit raises nothing and the
\* handler reads whatever is at the output path
RunCompiler_unchecked(r) ==
    /\ pc[r] = "Compiler"
    /\ \/ /\ files' = [files EXCEPT ![stl_path[r]] = Mesh(SourceAt(scad_path[r]))]
          /\ Logged(r, CompileCall(r, "ok"))
          /\ pc' = [pc EXCEPT ![r] = "ReadMesh"]
          /\ UNCHANGED ending
       \/ /\ UNCHANGED files
          /\ Logged(r, CompileCall(r, "failed"))
          /\ pc' = [pc EXCEPT ![r] = "ReadMesh"]
          /\ UNCHANGED ending
       \/ /\ UNCHANGED files
          /\ Logged(r, CompileCall(r, "failed"))
          /\ Except(r, doc_id[r], OtherError("TimeoutExpired"))
    /\ Fixed
    /\ UNCHANGED <<remoteDocs, locals, created>>

\* variant: timeout=30 left out, so a compiler that never exits blocks the
\* handler for good instead of raising TimeoutExpired
RunCompiler_notimeout(r) ==
    /\ pc[r] = "Compiler"
    /\ \/ /\ files' = [files EXCEPT ![stl_path[r]] = Mesh(SourceAt(scad_path[r]))]
          /\ Logged(r, CompileCall(r, "ok"))
          /\ pc' = [pc EXCEPT ![r] = "ReadMesh"]
          /\ UNCHANGED ending
       \/ /\ UNCHANGED files
          /\ Logged(r, CompileCall(r, "failed"))
          /\ Except(r, doc_id[r], HTTPException(500, <<"OpenSCAD error: ", "stderr">>))
       \/ /\ UNCHANGED <<files, calls, ending>>
          /\ pc' = [pc EXCEPT ![r] = "CompilerBlocked"]
    /\ Fixed
    /\ UNCHANGED <<remoteDocs, locals, created>>

\* lines 85-96: subprocess.run(["openscad", "-o", stl_path, scad_path],
\* check=True, timeout=30): exit 0 with the mesh written, a non-zero exit, or
\* the time bound exceeded
RunCompiler(r) ==
    /\ pc[r] = "Compiler"
    /\ \/ /\ files' = [files EXCEPT ![stl_path[r]] = Mesh(SourceAt(scad_path[r]))]
          /\ Logged(r, CompileCall(r, "ok"))
          /\ pc' = [pc EXCEPT ![r] = "ReadMesh"]
          /\ UNCHANGED ending
       \/ /\ UNCHANGED files
          /\ Logged(r, CompileCall(r, "failed"))
          /\ Except(r, doc_id[r], HTTPException(500, <<"OpenSCAD error: ", "stderr">>))
       \/ /\ UNCHANGED files
          /\ Logged(r, CompileCall(r, "failed"))
          /\ Except(r, doc_id[r], OtherError("TimeoutExpired"))
    /\ Fixed
    /\ UNCHANGED <<remoteDocs, locals, created>>

ReadCall(r, result) == Call("readMesh", None, None, <<stl_path[r]>>, <<>>, result)

\* variant: the read's OSError is swallowed like the removals' and the
\* handler goes on without a mesh
ReadMesh_swallow(r) ==
    /\ pc[r] = "ReadMesh"
    /\ \/ /\ stl_bytes' = [stl_bytes EXCEPT ![r] = files[stl_path[r]]]
          /\ Logged(r, ReadCall(r, "ok"))
       \/ /\ UNCHANGED stl_bytes
          /\ Logged(r, ReadCall(r, "failed"))
    /\ pc' = [pc EXCEPT ![r] = "Cleanup"]
    /\ Fixed
    /\ UNCHANGED <<files, remoteDocs, doc_id, workspace_id, scad_path, stl_path, blob,
                   created, ending>>

\* lines 98-100: the mesh is read back; the read can fail with OSError
ReadMesh(r) ==
    /\ pc[r] = "ReadMesh"
    /\ \/ /\ stl_bytes' = [stl_bytes EXCEPT ![r] = files[stl_path[r]]]
          /\ Logged(r, ReadCall(r, "ok"))
          /\ pc' = [pc EXCEPT ![r] = "Cleanup"]
          /\ UNCHANGED ending
       \/ /\ UNCHANGED stl_bytes
          /\ Logged(r, ReadCall(r, "failed"))
          /\ Except(r, doc_id[r], OtherError("OSError"))
    /\ Fixed
    /\ UNCHANGED <<files, remoteDocs, doc_id, workspace_id, scad_path, stl_path, blob,
                   created>>

\* variant: no try around the removals, so a failing os.remove raises into
\* the handler's except branch
Cleanup_escalate(r) ==
    /\ pc[r] = "Cleanup"
    /\ \/ /\ files' = [files EXCEPT ![scad_path[r]] = Absent, ![stl_path[r]] = Absent]
          /\ pc' = [pc EXCEPT ![r] = "CreatingDocument"]
          /\ UNCHANGED ending
       \/ /\ files' = files
          /\ Except(r, doc_id[r], OtherError("OSError"))
       \/ /\ files' = [files EXCEPT ![scad_path[r]] = Absent]
          /\ Except(r, doc_id[r], OtherError("OSError"))
    /\ Fixed
    /\ UNCHANGED <<remoteDocs, locals, created, calls>>

\* lines 102-107: os.remove(scad_path); os.remove(stl_path), with OSError
\* swallowed: a failing first removal skips the second
Cleanup(r) ==
    /\ pc[r] = "Cleanup"
    /\ \/ files' = [files EXCEPT ![scad_path[r]] = Absent, ![stl_path[r]] = Absent]
       \/ files' = files
       \/ files' = [files EXCEPT ![scad_path[r]] = Absent]
    /\ pc' = [pc EXCEPT ![r] = "CreatingDocument"]
    /\ Fixed
    /\ UNCHANGED <<remoteDocs, locals, ending, created, calls>>

\* the object the service answers a created document with, and the same
\* object without its defaultWorkspace member
FullDoc(d) == {<<"id", d>>, <<"defaultWorkspace/id", WorkspaceOf(d)>>}
IdOnlyDoc(d) == {<<"id", d>>}

\* requests.request raises without a response (connection failure)
TransportError == OtherError("ConnectionError")

CreateCall(r, result) == Call("createDocument", None, None, doc_name[r], <<>>, result)

\* lines 110-116 once the exchange has been answered with resp: the helper's
\* verdict, then doc["id"] and doc["defaultWorkspace"]["id"]
AfterCreate(r, resp) ==
    LET doc == onshape_api_request(resp)
    IN  /\ Logged(r, Exchange(CreateCall(r, ResultOf(doc)), resp, doc))
        /\ IF doc.raised
           THEN /\ Except(r, doc_id[r], doc.exc)
                /\ UNCHANGED <<doc_id, workspace_id>>
           ELSE IF ~HasKey(doc.value, "id")
           THEN /\ Except(r, doc_id[r], KeyError("id"))
                /\ UNCHANGED <<doc_id, workspace_id>>
           ELSE /\ doc_id' = [doc_id EXCEPT ![r] = Get(doc.value, "id")]
                /\ IF ~HasKey(doc.value, "defaultWorkspace/id")
                   THEN /\ Except(r, Get(doc.value, "id"), KeyError("defaultWorkspace"))
                        /\ UNCHANGED workspace_id
                   ELSE /\ workspace_id' = [workspace_id EXCEPT ![r] =
                                               Get(doc.value, "defaultWorkspace/id")]
                        /\ pc' = [pc EXCEPT ![r] = "Uploading"]
                        /\ UNCHANGED ending

\* lines 109-116: POST /documents.  The service creates a document under an
\* unused identifier exactly when it answers with a success status
CreateDocument(r) ==
    /\ pc[r] = "CreatingDocument"
    /\ \/ /\ Logged(r, CreateCall(r, "failed"))
          /\ Except(r, doc_id[r], TransportError)
          /\ UNCHANGED <<remoteDocs, created, doc_id, workspace_id>>
       \/ /\ \E resp \in ErrResponses \cup Unfollowed : AfterCreate(r, resp)
          /\ UNCHANGED <<remoteDocs, created>>
       \/ \E d \in DocIds \ remoteDocs :
             /\ remoteDocs' = remoteDocs \cup {d}
             /\ created' = [created EXCEPT ![r] = d]
             /\ \E resp \in BlankOk \cup GarbageOk \cup {JsonOk(FullDoc(d)), JsonOk(IdOnlyDoc(d))} :
                   AfterCreate(r, resp)
    /\ Fixed
    /\ UNCHANGED <<files, scad_path, stl_path, stl_bytes, blob>>

\* variant: the upload sends what is at stl_path at that moment instead of
\* the bytes read before the files were removed
UploadCall_reread(r, result) ==
    Call("uploadBlob", doc_id[r], workspace_id[r], <<"model.stl">>, files[stl_path[r]], result)

UploadCall(r, result) ==
    Call("uploadBlob", doc_id[r], workspace_id[r], <<"model.stl">>, stl_bytes[r], result)

\* what a successful upload leaves behind
UploadDone(r, res) ==
    /\ blob' = [blob EXCEPT ![r] = res.value]
    /\ pc' = [pc EXCEPT ![r] = "Importing"]
    /\ UNCHANGED ending

\* variant: a failed upload is followed by a compensating DELETE of the
\* document before the except branch runs
UploadBlob_rollback(r) ==
    /\ pc[r] = "Uploading"
    /\ \E res \in {onshape_api_request(resp) :
                      resp \in ErrResponses \cup {JsonOk({<<"id", BlobOf(doc_id[r])>>})}} :
          /\ Logged(r, UploadCall(r, ResultOf(res)))
          /\ IF res.raised
             THEN /\ Except(r, doc_id[r], res.exc)
                  /\ remoteDocs' = remoteDocs \ {doc_id[r]}
                  /\ UNCHANGED blob
             ELSE /\ UploadDone(r, res)
                  /\ UNCHANGED remoteDocs
    /\ Fixed
    /\ UNCHANGED <<files, doc_id, workspace_id, scad_path, stl_path, stl_bytes, created>>

\* variant: a failed upload is sent again instead of raising
UploadBlob_retry(r) ==
    /\ pc[r] = "Uploading"
    /\ \E res \in {onshape_api_request(resp) :
                      resp \in ErrResponses \cup {JsonOk({<<"id", BlobOf(doc_id[r])>>})}} :
          /\ Logged(r, UploadCall(r, ResultOf(res)))
          /\ IF res.raised
             THEN UNCHANGED <<pc, blob, ending>>
             ELSE UploadDone(r, res)
    /\ Fixed
    /\ UNCHANGED <<files, remoteDocs, doc_id, workspace_id, scad_path, stl_path, stl_bytes,
                   created>>

\* lines 118-128: POST /blobelements/d/{doc_id}/w/{workspace_id} with the
\* mesh as a multipart file
UploadBlob(r) ==
    /\ pc[r] = "Uploading"
    /\ \/ /\ Logged(r, UploadCall(r, "failed"))
          /\ Except(r, doc_id[r], TransportError)
          /\ UNCHANGED blob
       \/ \E resp \in ErrResponses \cup Unfollowed \cup BlankOk \cup GarbageOk
                        \cup {JsonOk({<<"id", BlobOf(doc_id[r])>>})} :
             LET res == onshape_api_request(resp)
             IN  /\ Logged(r, Exchange(UploadCall(r, ResultOf(res)), resp, res))
                 /\ IF res.raised
                    THEN /\ Except(r, doc_id[r], res.exc)
                         /\ UNCHANGED blob
                    ELSE UploadDone(r, res)
    /\ Fixed
    /\ UNCHANGED <<files, remoteDocs, doc_id, workspace_id, scad_path, stl_path, stl_bytes,
                   created>>

ImportCall(r, result) ==
    Call("importBlob", doc_id[r], workspace_id[r], <<Get(blob[r], "id")>>, <<>>, result)

\* lines 130-154: blob["id"] is read, POST /partstudios/.../import is sent,
\* and the success record is returned
ImportBlob(r) ==
    /\ pc[r] = "Importing"
    /\ IF ~HasKey(blob[r], "id")
       THEN /\ Except(r, doc_id[r], KeyError("id"))
            /\ UNCHANGED calls
       ELSE \/ /\ Logged(r, ImportCall(r, "failed"))
               /\ Except(r, doc_id[r], TransportError)
            \/ \E resp \in ErrResponses \cup Unfollowed \cup BlankOk \cup GarbageOk
                             \cup {JsonOk(EmptyDict)} :
                  LET res == onshape_api_request(resp)
                  IN  /\ Logged(r, Exchange(ImportCall(r, ResultOf(res)), resp, res))
                      /\ IF res.raised
                         THEN Except(r, doc_id[r], res.exc)
                         ELSE Return(r, SuccessResponse(doc_id[r], doc_name[r]), "Success")
    /\ Fixed
    /\ UNCHANGED <<files, remoteDocs, locals, created>>

\* no request has been issued yet
Alone == \A q \in Reqs : pc[q] = "Idle"

\* one request, handled from start to end
Next ==
    \/ Tick
    \/ \E r \in Reqs : Alone /\ Start(r)
    \/ \E r \in Reqs : Validate(r)
    \/ \E r \in Reqs : CreateTempFiles(r)
    \/ \E r \in Reqs : RunCompiler(r)
    \/ \E r \in Reqs : ReadMesh(r)
    \/ \E r \in Reqs : Cleanup(r)
    \/ \E r \in Reqs : CreateDocument(r)
    \/ \E r \in Reqs : UploadBlob(r)
    \/ \E r \in Reqs : ImportBlob(r)

Spec == Init /\ [][Next]_vars

\* a step of the handler of request r, once it has been entered
Step(r) ==
    \/ Validate(r)
    \/ CreateTempFiles(r)
    \/ RunCompiler(r)
    \/ ReadMesh(r)
    \/ Cleanup(r)
    \/ CreateDocument(r)
    \/ UploadBlob(r)
    \/ ImportBlob(r)

\* the same request, with every external call coming back: the handler's
\* thread keeps running, the compiler exits or is stopped at its time bound,
\* and each HTTP exchange is answered or fails
SpecLive == Init /\ [][Next]_vars /\ \A r \in Reqs : WF_vars(Step(r))

\* two requests issued side by side, up to the point where doc_name is fixed
NextNames ==
    \/ Tick
    \/ \E r \in Reqs : Start(r)

SpecNames == Init /\ [][NextNames]_vars

\* the payloads of two requests served side by side: different sources and
\* different names, so that a value crossing from one to the other shows
CodeOf(r) == IF r = 1 THEN <<"c">> ELSE <<" ">>
NameOf(r) == IF r = 1 THEN <<"G">> ELSE NoName

StartConc(r) ==
    /\ Start(r)
    /\ payload'[r] = [openscad_code |-> CodeOf(r), document_name |-> NameOf(r)]

\* lines 62-66: the handler is a plain def, so the framework runs each
\* request on a worker thread and the steps of two requests interleave
NextConc ==
    \/ \E r \in Reqs : StartConc(r)
    \/ \E r \in Reqs : Validate(r)
    \/ \E r \in Reqs : CreateTempFiles(r)
    \/ \E r \in Reqs : RunCompiler(r)
    \/ \E r \in Reqs : ReadMesh(r)
    \/ \E r \in Reqs : Cleanup(r)
    \/ \E r \in Reqs : CreateDocument(r)
    \/ \E r \in Reqs : UploadBlob(r)
    \/ \E r \in Reqs : ImportBlob(r)

SpecConc == Init /\ [][NextConc]_vars

(* ------------------------------ properties ----------------------------- *)

Finished(r) == pc[r] = "Done"
\* the handler of r invoked op and the invocation came back / raised
Succeeded(r, op) == \E i \in DOMAIN calls[r] : calls[r][i].op = op /\ calls[r][i].result = "ok"
Failed(r, op) == \E i \in DOMAIN calls[r] : calls[r][i].op = op /\ calls[r][i].result = "failed"
Invoked(r, op) == \E i \in DOMAIN calls[r] : calls[r][i].op = op
Invocations(r, op) == Cardinality({i \in DOMAIN calls[r] : calls[r][i].op = op})
RemoteOps == {"createDocument", "uploadBlob", "importBlob"}

\* C1: once createDocument has succeeded, a request that ends through an
\* exception ends as PartialSuccess, never Failure, carrying the created
\* document's id, the request's document name and the viewer URL of that id.
C1_PartialAfterCommit ==
    \A r \in Reqs :
        (Finished(r) /\ Succeeded(r, "createDocument") /\ via[r] # "Success")
            => /\ via[r] = "PartialSuccess"
               /\ response[r].success
               /\ response[r].docId = created[r]
               /\ response[r].docName = doc_name[r]
               /\ response[r].url = <<"https://cad.onshape.com", "/documents/", created[r]>>

\* C2: when the compiler exits non-zero or runs out of time, the request
\* ends as Failure, no Document Client operation was invoked and no remote
\* document exists.
C2_CompileFailureIsPure ==
    \A r \in Reqs :
        Failed(r, "compile")
            => /\ Finished(r)
               /\ via[r] = "Failure"
               /\ ~response[r].success
               /\ response[r].docId = None
               /\ \A op \in RemoteOps : ~Invoked(r, op)
               /\ created[r] = None
C2_Witness ==
    \E r \in Reqs :
        /\ Finished(r)
        /\ Failed(r, "compile")
        /\ response[r].error = <<"TimeoutExpired">>

\* C3: a request whose sourceCode is empty or only whitespace ends as a
\* Failure record with a validation detail, and neither the compiler nor a
\* remote operation is invoked.
C3_BlankSourceRejected ==
    \A r \in Reqs :
        (Finished(r) /\ IsBlank(payload[r].openscad_code))
            => /\ via[r] = "Failure"
               /\ ~response[r].success
               /\ response[r].error = <<"400", ": ", "openscad_code is required">>
               /\ calls[r] = <<>>

\* C4: when compile, createDocument, uploadBlob and importBlob all succeed
\* the request ends as Success, with the created document's id and the url
\* <base>/documents/<id>, the base being the viewer's address.
C4_FullSuccess ==
    \A r \in Reqs :
        (Finished(r) /\ \A op \in RemoteOps \cup {"compile"} : Succeeded(r, op))
            => /\ via[r] = "Success"
               /\ response[r].success
               /\ response[r].docId = created[r]
               /\ response[r].url = <<"https://cad.onshape.com", "/documents/", created[r]>>
C4_Witness ==
    \E r \in Reqs :
        /\ Finished(r)
        /\ \A op \in RemoteOps \cup {"compile"} : Succeeded(r, op)
        /\ response[r].docId = "d2"

\* C5: when a request has ended, on whatever path, neither its temporary
\* source file nor its temporary mesh file is still on disk.
C5_NoTempFilesLeft ==
    \A r \in Reqs :
        Finished(r) => \A p \in {scad_path[r], stl_path[r]} \ {NoPath} : files[p] = Absent

\* C6: every invocation ends by returning one outcome record (Success,
\* PartialSuccess or Failure); no failure inside the pipeline leaves the
\* handler as an exception.
C6_AlwaysAnOutcome ==
    \A r \in Reqs :
        Finished(r) => /\ via[r] \in {"Success", "PartialSuccess", "Failure"}
                       /\ fault[r] = NoExc

\* C7: a document the service created for a request still exists in every
\* later state of the request, and the handler never issues a call other
\* than its compile, read, create, upload and import.
C7_DocumentNeverDeleted ==
    \A r \in Reqs :
        /\ created[r] # None => created[r] \in remoteDocs
        /\ \A i \in DOMAIN calls[r] :
              calls[r][i].op \in RemoteOps \cup {"compile", "readMesh"}
C7_Witness ==
    \E r \in Reqs :
        /\ Finished(r)
        /\ Failed(r, "uploadBlob")
        /\ created[r] = "d1"
        /\ created[r] \in remoteDocs

\* C8: two requests without a documentName whose clock readings differ get
\* different default names; the default name depends on the clock reading
\* only; a non-empty documentName is used unchanged.
Defaulted(r) == pc[r] # "Idle" /\ Falsy(payload[r].document_name)
C8_DefaultNames ==
    /\ \A r1, r2 \in Reqs :
          (Defaulted(r1) /\ Defaulted(r2))
              => (issuedAt[r1] # issuedAt[r2] <=> doc_name[r1] # doc_name[r2])
    /\ \A r \in Reqs :
          (pc[r] # "Idle" /\ ~Falsy(payload[r].document_name))
              => doc_name[r] = payload[r].document_name
C8_Witness ==
    \E r1, r2 \in Reqs :
        /\ Defaulted(r1) /\ Defaulted(r2)
        /\ issuedAt[r1].sec = issuedAt[r2].sec
        /\ issuedAt[r1].us # issuedAt[r2].us

\* C9: the stages of a request are entered in the order Validating,
\* Compiling, CreatingDocument, Uploading, Importing, Done only: every
\* external operation is invoked right after the one before it succeeded,
\* starting with the compiler, and no request moves back to an earlier stage
\* or out of Done.
StageRank(p) ==
    CASE Stage(p) = "Idle" -> 0
      [] Stage(p) = "Validating" -> 1
      [] Stage(p) = "Compiling" -> 2
      [] Stage(p) = "CreatingDocument" -> 3
      [] Stage(p) = "Uploading" -> 4
      [] Stage(p) = "Importing" -> 5
      [] OTHER -> 6
OpRank(op) ==
    CASE op = "compile" -> 1
      [] op = "readMesh" -> 2
      [] op = "createDocument" -> 3
      [] op = "uploadBlob" -> 4
      [] OTHER -> 5
CallsInOrder(r) ==
    \A i \in DOMAIN calls[r] :
        /\ OpRank(calls[r][i].op) = i
        /\ i > 1 => calls[r][i - 1].result = "ok"
        /\ calls[r][i].op = "createDocument" => StageRank(pc[r]) >= 3
        /\ calls[r][i].op = "uploadBlob" => StageRank(pc[r]) >= 4
        /\ calls[r][i].op = "importBlob" => StageRank(pc[r]) >= 5
StagesForward(r) ==
    /\ StageRank(pc'[r]) >= StageRank(pc[r])
    /\ (pc[r] = "Done" => calls'[r] = calls[r] /\ response'[r] = response[r])
    /\ (StageRank(pc'[r]) > StageRank(pc[r]) /\ pc'[r] # "Done")
          => StageRank(pc'[r]) = StageRank(pc[r]) + 1
C9_ForwardOrder == [](\A r \in Reqs : CallsInOrder(r)) /\ [][\A r \in Reqs : StagesForward(r)]_vars
C9_Witness ==
    \E r \in Reqs :
        /\ Finished(r)
        /\ Len(calls[r]) = 5
        /\ calls[r][5].result = "failed"

\* C10: within one request the compiler, createDocument, uploadBlob and
\* importBlob are each invoked at most once, a failed operation is not
\* tried again, and the service holds at most one document per request.
C10_AtMostOnce ==
    /\ \A r \in Reqs : \A op \in RemoteOps \cup {"compile"} : Invocations(r, op) <= 1
    /\ Cardinality(remoteDocs) = Cardinality({r \in Reqs : created[r] # None})
C10_Witness ==
    \E r \in Reqs :
        /\ Finished(r)
        /\ Failed(r, "uploadBlob")
        /\ Invocations(r, "uploadBlob") = 1
        /\ Cardinality(remoteDocs) = 1

\* C11: the document id is captured as soon as the service has created the
\* document: in no state does the document exist for a request while the
\* request's doc_id is still unset.
C11_IdCapturedAtCommit ==
    \A r \in Reqs : created[r] # None => doc_id[r] # None

\* C12: a request rejected by the emptiness check has had no side effect: no
\* temporary file was created, no compiler was run, no remote call was made.
Rejected(r) == Finished(r) /\ fault[r].type = "HTTPException" /\ fault[r].status_code = 400
C12_RejectionHasNoEffect ==
    \A r \in Reqs :
        Rejected(r)
            => /\ calls[r] = <<>>
               /\ scad_path[r] = NoPath /\ stl_path[r] = NoPath
               /\ \A p \in Paths : files[p] = Absent
               /\ created[r] = None
               /\ remoteDocs = {}
C12_Witness ==
    \E r \in Reqs : Rejected(r) /\ payload[r].openscad_code = <<>> /\ via[r] = "raised"

\* C13 as stated: the record returned on the partial-failure path equals,
\* field by field, the record the success path returns for the same
\* document id and document name.
C13_PartialEqualsSuccess ==
    \A r \in Reqs :
        via[r] = "PartialSuccess" => response[r] = SuccessResponse(doc_id[r], doc_name[r])

\* C13 (amended): the record returned on the partial-failure path agrees
\* with the success path's record for the same id and name in success,
\* docId, docName, url and the unset error, and in the name, id and url its
\* message quotes; the two messages differ in their opening only, the
\* success path's starting with a check mark.
C13_PartialMatchesSuccessButHead ==
    \A r \in Reqs :
        via[r] = "PartialSuccess"
            => LET full == SuccessResponse(doc_id[r], doc_name[r])
                   part == response[r]
               IN  /\ part.success = full.success
                   /\ part.docId = full.docId
                   /\ part.docName = full.docName
                   /\ part.url = full.url
                   /\ part.error = full.error
                   /\ [part.message EXCEPT !.head = full.message.head] = full.message
                   /\ part.message.head # full.message.head
C13_Witness ==
    \E r \in Reqs :
        /\ via[r] = "PartialSuccess"
        /\ Failed(r, "importBlob")
        /\ response[r].docId = "d1"

\* C14: uploadBlob and importBlob are called with the document id and the
\* default workspace id that this request's createDocument returned,
\* importBlob with the blob id that this request's uploadBlob returned, and
\* the uploaded bytes are the mesh the compiler produced for this request's
\* sourceCode.
EntryOf(r, op) == calls[r][CHOOSE i \in DOMAIN calls[r] : calls[r][i].op = op]
C14_CallsUseOwnResults ==
    \A r \in Reqs :
        /\ Invoked(r, "uploadBlob")
              => LET made == EntryOf(r, "createDocument").out.value
                     up == EntryOf(r, "uploadBlob")
                 IN  /\ up.doc = Get(made, "id")
                     /\ up.doc = created[r]
                     /\ up.ws = Get(made, "defaultWorkspace/id")
                     /\ up.data = Mesh(payload[r].openscad_code)
        /\ Invoked(r, "importBlob")
              => LET made == EntryOf(r, "createDocument").out.value
                     up == EntryOf(r, "uploadBlob")
                     imp == EntryOf(r, "importBlob")
                 IN  /\ imp.doc = Get(made, "id")
                     /\ imp.ws = Get(made, "defaultWorkspace/id")
                     /\ imp.arg = <<Get(up.out.value, "id")>>
C14_Witness ==
    \E r \in Reqs :
        /\ Invoked(r, "importBlob")
        /\ EntryOf(r, "importBlob").doc = "d2"
        /\ EntryOf(r, "uploadBlob").data = <<"stl", " ">>

\* C15: every request that has started reaches a terminal outcome, provided
\* each external call returns or fails.
C15_RequestsTerminate == \A r \in Reqs : (pc[r] # "Idle") ~> (pc[r] = "Done")
C15_Witness ==
    \E r \in Reqs :
        /\ Finished(r)
        /\ via[r] = "Success"
        /\ Len(calls[r]) = 5

\* the request has its two temporary files open or on disk for its own use
Holding(r) == pc[r] \in {"Compiler", "ReadMesh", "Cleanup"}
HeldPaths(r) == IF Holding(r) THEN {scad_path[r], stl_path[r]} ELSE {}

\* everything the handler of r keeps for itself
Own(r) ==
    <<pc[r], payload[r], issuedAt[r], doc_name[r], doc_id[r], workspace_id[r],
      scad_path[r], stl_path[r], stl_bytes[r], blob[r], response[r], fault[r], via[r],
      created[r], calls[r]>>

\* the files of r hold r's source and, once compiled, r's mesh; what r sends
\* and returns comes from r's payload and r's own exchanges
OwnData(r) ==
    /\ Holding(r) =>
          /\ scad_path[r] # stl_path[r]
          /\ files[scad_path[r]] = ScadText(payload[r].openscad_code)
          /\ files[stl_path[r]] \in {EmptyFile, Mesh(payload[r].openscad_code)}
    /\ \A i \in DOMAIN calls[r] :
          /\ calls[r][i].op = "compile" =>
                calls[r][i].data = ScadText(payload[r].openscad_code)
          /\ calls[r][i].op = "uploadBlob" =>
                /\ calls[r][i].data = Mesh(payload[r].openscad_code)
                /\ calls[r][i].doc = created[r]
    /\ pc[r] \in {"Cleanup", "CreatingDocument", "Uploading", "Importing"} =>
          stl_bytes[r] = Mesh(payload[r].openscad_code)
    /\ (Finished(r) /\ via[r] # "raised") =>
          /\ response[r].docId \in {None, created[r]}
          /\ response[r].docName \in {NoText, DocName(payload[r].document_name, issuedAt[r])}

\* a step that is not r's leaves r's state and r's files as they were
OthersLeaveAlone(r) ==
    pc'[r] = pc[r] =>
        /\ Own(r)' = Own(r)
        /\ Holding(r) =>
              /\ files'[scad_path[r]] = files[scad_path[r]]
              /\ files'[stl_path[r]] = files[stl_path[r]]

\* C16: for any interleaving of two concurrent requests, each request uses
\* its own freshly named source and mesh files, no request reads, overwrites
\* or removes the other's files, and what each request uploads and returns
\* comes from its own payload and the answers to its own calls.
C16_RequestsIndependent ==
    /\ [](\A r \in Reqs : OwnData(r))
    /\ [](\A r, q \in Reqs :
             r # q => /\ HeldPaths(r) \cap HeldPaths(q) = {}
                      /\ created[r] # None => created[r] # created[q])
    /\ [][\A r \in Reqs : OthersLeaveAlone(r)]_vars
\* both requests hold their files at the same moment, and later both end with
\* a published model
C16_Witness ==
    /\ \A r \in Reqs : Finished(r) /\ via[r] = "Success"
    /\ \E i \in DOMAIN calls[1] :
          /\ calls[1][i].op = "uploadBlob"
          /\ calls[1][i].data = Mesh(CodeOf(1))
    /\ calls[2][1].arg = <<3, 4>>

\* the call was an HTTP exchange that got an answer
Answered(c) == c.resp # NoResp
\* a 2xx status
SuccessStatus(resp) == resp.status_code >= 200 /\ resp.status_code < 300
\* the remote API error of lines 53-56 for resp
IsRemoteAPIError(out, resp) ==
    /\ out.raised
    /\ out.exc.type = "HTTPException"
    /\ out.exc.status_code = resp.status_code
    /\ out.exc.detail = <<"Onshape API error ", StatusStr(resp.status_code), ": ", resp.text>>

PastCleanup(r) == Succeeded(r, "readMesh") /\ pc[r] # "Cleanup"

\* C18: a failure to remove a temporary file after the mesh has been read
\* is swallowed: whatever the removals did, the handler moves on to
\* createDocument with nothing of its own changed, and no outcome reports
\* the removal.
C18_RemovalFailureSwallowed ==
    /\ [](\A r \in Reqs :
             PastCleanup(r) =>
                /\ pc[r] = "CreatingDocument" \/ Invoked(r, "createDocument")
                /\ Finished(r) =>
                      /\ fault[r] = NoExc
                      /\ response[r].error # Str(OtherError("OSError")))
    /\ [][\A r \in Reqs :
             (pc[r] = "Cleanup" /\ pc'[r] # pc[r]) =>
                /\ Own(r)' = [Own(r) EXCEPT ![1] = "CreatingDocument"]
                /\ remoteDocs' = remoteDocs]_vars
\* a request that published its model although neither file was removed
C18_Witness ==
    \E r \in Reqs :
        /\ Finished(r)
        /\ via[r] = "Success"
        /\ files[scad_path[r]] = ScadText(payload[r].openscad_code)
        /\ files[stl_path[r]] = Mesh(payload[r].openscad_code)

\* the handler of r returned a record
Answer(r) == Finished(r) /\ via[r] # "raised"
\* the last call of r was an exchange the Document Client turned into an
\* exception
LastExchangeRaised(r) ==
    /\ calls[r] # <<>>
    /\ Answered(calls[r][Len(calls[r])])
    /\ calls[r][Len(calls[r])].out.raised

\* C19: every record the handler returns has one of two shapes: success
\* with docId, docName, url and message set and error unset, or failure
\* with error set to the text of the exception and the other four unset; a
\* failure record never carries a document id.
C19_WellFormedOutcome ==
    \A r \in Reqs :
        Answer(r) =>
            LET o == response[r]
            IN  \/ /\ o.success
                   /\ o.docId # None
                   /\ o.docName # NoText
                   /\ o.url # NoText
                   /\ o.message # NoMessage
                   /\ o.error = NoText
                \/ /\ ~o.success
                   /\ o.error # NoText
                   /\ LastExchangeRaised(r) =>
                         o.error = Str(calls[r][Len(calls[r])].out.exc)
                   /\ o.docId = None
                   /\ o.docName = NoText
                   /\ o.url = NoText
                   /\ o.message = NoMessage
\* a failure record whose error is the text of the 403 answered to
\* createDocument
C19_Witness ==
    \E r \in Reqs :
        /\ Answer(r)
        /\ via[r] = "Failure"
        /\ ~response[r].success
        /\ response[r].error =
              <<"403", ": ", "Onshape API error ", "403", ": ", "denied">>

====
